---- MODULE Spec2Model ----
(***************************************************************************)
(* A model of multi_vector's MultiVector (src/src/lib.rs): a map from      *)
(* vector name to BumpyVector, whose entries carry the coordinates of the  *)
(* group they were inserted with.                                          *)
(*                                                                         *)
(* Every public method is a pure operator over the map (named as in the    *)
(* source) and an action that calls it.  A call moves the caller from      *)
(* "ready" to "returned": `pre` then holds the map as it was before the    *)
(* call and `ret` the call with its result; Return hands control back.     *)
(***************************************************************************)
EXTENDS Integers, Sequences, FiniteSets, TLC

\* Largest max_size a vector is created with; offsets range over 0..MaxSize.
MaxSize == 2
\* Largest number of items in one insert_entries call.
MaxGroup == 3
\* Largest sum of the max_size of the vectors that exist at one time.
MaxTotal == 4
\* Longest link record of a deserialized MultiVector.
MaxLinks == 3

\* Vector names the caller uses.
Names == {"A", "B"}
\* Offsets the caller passes (MaxSize itself is past the end of every vector).
Indices == 0 .. MaxSize
\* Entry sizes the caller passes (0 is rejected by BumpyVector).
Sizes == 0 .. MaxSize
\* The payload the caller stores with an item: it names the item, so that a
\* payload ending up in another entry shows.
Payload(vector, index, size) ==
    (IF vector = "A" THEN 100 ELSE 200) + 10 * index + size

VARIABLES
    vectors,    \* MultiVector.vectors: name -> BumpyVector
    pre,        \* the value of `vectors` when the last call started
    ret,        \* the last call and what it returned; NoCall between calls
    groups,     \* history: the item lists of the successful inserts whose
                \* entries are all still stored and were never unlinked
    created,    \* history: name -> the max_size its create_vector was given
    step        \* the number of calls of the usage example made so far

vars == <<vectors, pre, ret, groups, created, step>>

\* Option<T>
None == <<>>
Some(x) == <<x>>

----------------------------------------------------------------------------
(* BumpyVector, the interval store this crate builds on.                   *)

\* BumpyVector::new
BumpyVectorNew(max_size) == [max_size |-> max_size, data |-> {}]

\* The entries of bv whose span [index, index + size) holds `index`.
Covering(bv, index) ==
    {e \in bv.data : e.index <= index /\ index < e.index + e.size}

\* BumpyVector::get / get_mut: the entry covering `index`, if any.
BumpyGet(bv, index) ==
    IF Covering(bv, index) = {} THEN None
    ELSE Some(CHOOSE e \in Covering(bv, index) : TRUE)

\* BumpyVector::remove: the vector without the entry covering `index`.
BumpyRemove(bv, index) ==
    [bv EXCEPT !.data = @ \ Covering(bv, index)]

\* BumpyVector::insert's verdict on `entry`: "" when it is accepted.
BumpyInsertError(bv, entry) ==
    IF entry.size = 0 THEN "zero size"
    ELSE IF entry.index + entry.size > bv.max_size THEN "past max_size"
    ELSE IF \E e \in bv.data :
                /\ e.index < entry.index + entry.size
                /\ entry.index < e.index + e.size
         THEN "overlap"
    ELSE ""

\* BumpyVector::insert, when accepted.
BumpyInsert(bv, entry) == [bv EXCEPT !.data = @ \cup {entry}]

\* BumpyVector::len
BumpyLen(bv) == Cardinality(bv.data)

\* An assignment that reaches every entry of the vector.
SetLinked_all(bv, index, linked) ==
    [bv EXCEPT !.data = {[e EXCEPT !.entry.linked = linked] : e \in @}]

\* `e.entry.linked = linked` through the &mut that get_mut(index) returns.
SetLinked(bv, index, linked) ==
    [bv EXCEPT !.data =
        {IF e \in Covering(bv, index)
            THEN [e EXCEPT !.entry.linked = linked] ELSE e : e \in @}]

----------------------------------------------------------------------------
(* MultiVector                                                             *)

\* MultiVector::new
new == [n \in {} |-> BumpyVectorNew(0)]

\* HashMap::insert of a new key.
MapInsert(vs, name, bv) ==
    [n \in DOMAIN vs \cup {name} |-> IF n = name THEN bv ELSE vs[n]]

\* HashMap::remove
MapRemove(vs, name) == [n \in DOMAIN vs \ {name} |-> vs[n]]

\* A create_vector that replaces a vector of the same name.
create_vector_overwrite(vs, name, max_size) ==
    [vectors |-> MapInsert(vs, name, BumpyVectorNew(max_size)),
     status |-> "Ok", value |-> None]

create_vector(vs, name, max_size) ==
    IF name \in DOMAIN vs
    THEN [vectors |-> vs, status |-> "Err",
          value |-> "Vector with that name already exists"]
    ELSE [vectors |-> MapInsert(vs, name, BumpyVectorNew(max_size)),
          status |-> "Ok", value |-> None]

\* A destroy_vector that does not look at what the vector holds.
destroy_vector_forced(vs, vector) ==
    IF vector \notin DOMAIN vs
    THEN [vectors |-> vs, status |-> "Err",
          value |-> "Vector with that name does not exist"]
    ELSE [vectors |-> MapRemove(vs, vector), status |-> "Ok",
          value |-> vs[vector].max_size]

\* A destroy_vector that returns the number of entries, not max_size.
destroy_vector_returns_len(vs, vector) ==
    IF vector \notin DOMAIN vs
    THEN [vectors |-> vs, status |-> "Err",
          value |-> "Vector with that name does not exist"]
    ELSE IF BumpyLen(vs[vector]) # 0
    THEN [vectors |-> vs, status |-> "Err", value |-> "Vector is not empty"]
    ELSE [vectors |-> MapRemove(vs, vector), status |-> "Ok",
          value |-> BumpyLen(vs[vector])]

destroy_vector(vs, vector) ==
    IF vector \notin DOMAIN vs
    THEN [vectors |-> vs, status |-> "Err",
          value |-> "Vector with that name does not exist"]
    ELSE IF BumpyLen(vs[vector]) # 0
    THEN [vectors |-> vs, status |-> "Err", value |-> "Vector is not empty"]
    ELSE [vectors |-> MapRemove(vs, vector), status |-> "Ok",
          value |-> vs[vector].max_size]

\* A rollback that removes nothing.
force_remove_nothing(vs, entries) == vs

RECURSIVE force_remove(_, _)
\* _force_remove: drop the entry covering each (vector, index), skipping
\* names that are not in the map.
force_remove(vs, entries) ==
    IF entries = <<>> THEN vs
    ELSE LET vector == Head(entries)[1]
             index  == Head(entries)[2]
         IN force_remove(
                IF vector \in DOMAIN vs
                    THEN [vs EXCEPT ![vector] = BumpyRemove(@, index)]
                    ELSE vs,
                Tail(entries))

\* A link record in the reverse of the caller's order.
references_reversed(entries) ==
    [k \in 1 .. Len(entries) |->
        <<entries[Len(entries) + 1 - k][1], entries[Len(entries) + 1 - k][3]>>]

\* A link record that takes an item's size for its offset.
references_by_size(entries) ==
    [k \in 1 .. Len(entries) |-> <<entries[k][1], entries[k][4]>>]

\* A link record that leaves the last item out.
references_without_last(entries) ==
    [k \in 1 .. Len(entries) - 1 |-> <<entries[k][1], entries[k][3]>>]

\* The link record of a call: the (vector, index) of every item, in order.
references(entries) ==
    [k \in 1 .. Len(entries) |-> <<entries[k][1], entries[k][3]>>]

\* The BumpyEntry that insert_entries builds for one item.
WrapEntry(item, linked) ==
    [entry |-> [vector |-> item[1], linked |-> linked, data |-> item[2]],
     index |-> item[3], size |-> item[4]]

RECURSIVE InsertLoop_unchecked(_, _, _, _)
\* A loop that stores every item of a known vector, refused or not.
InsertLoop_unchecked(vs, entries, k, backtrack) ==
    IF k > Len(entries) THEN [vectors |-> vs, status |-> "Ok", value |-> None]
    ELSE LET vector == entries[k][1]
             entry  == WrapEntry(entries[k], references(entries))
         IN IF vector \notin DOMAIN vs
            THEN [vectors |-> force_remove(vs, backtrack), status |-> "Err",
                  value |-> "Couldn't find vector"]
            ELSE InsertLoop_unchecked(
                    [vs EXCEPT ![vector] = BumpyInsert(@, entry)],
                    entries, k + 1,
                    Append(backtrack, <<vector, entries[k][3]>>))

RECURSIVE InsertLoop(_, _, _, _)
\* The body of insert_entries' for loop from item k on; `backtrack` holds
\* the coordinates inserted so far in this call.
InsertLoop(vs, entries, k, backtrack) ==
    IF k > Len(entries) THEN [vectors |-> vs, status |-> "Ok", value |-> None]
    ELSE LET vector == entries[k][1]
             entry  == WrapEntry(entries[k], references(entries))
         IN IF vector \notin DOMAIN vs
            THEN [vectors |-> force_remove(vs, backtrack), status |-> "Err",
                  value |-> "Couldn't find vector"]
            ELSE IF BumpyInsertError(vs[vector], entry) # ""
            THEN [vectors |-> force_remove(vs, backtrack), status |-> "Err",
                  value |-> BumpyInsertError(vs[vector], entry)]
            ELSE InsertLoop(
                    [vs EXCEPT ![vector] = BumpyInsert(@, entry)],
                    entries, k + 1,
                    Append(backtrack, <<vector, entries[k][3]>>))

\* An insert_entries that refuses an empty list.
insert_entries_refuses_empty(vs, entries) ==
    IF entries = <<>>
    THEN [vectors |-> vs, status |-> "Err", value |-> "nothing to insert"]
    ELSE InsertLoop(vs, entries, 1, <<>>)

\* entries: a sequence of <<vector, data, index, size>>.
insert_entries(vs, entries) == InsertLoop(vs, entries, 1, <<>>)

insert_entry(vs, vector, data, index, size) ==
    insert_entries(vs, << <<vector, data, index, size>> >>)

\* An unlink that leaves the other members' link records alone.
UnlinkLoop_skip(vs, new_linked, k) ==
    [vectors |-> vs, status |-> "Ok", value |-> None]

RECURSIVE UnlinkLoop_first_only(_, _, _)
\* A loop that stops after the first remaining member.
UnlinkLoop_first_only(vs, new_linked, k) ==
    IF k > Len(new_linked) \/ k > 1
    THEN [vectors |-> vs, status |-> "Ok", value |-> None]
    ELSE LET vector == new_linked[k][1]
             index  == new_linked[k][2]
         IN IF vector \notin DOMAIN vs
            THEN [vectors |-> vs, status |-> "Panic", value |-> None]
            ELSE IF BumpyGet(vs[vector], index) = None
            THEN [vectors |-> vs, status |-> "Panic", value |-> None]
            ELSE UnlinkLoop_first_only(
                    [vs EXCEPT ![vector] = SetLinked(@, index, new_linked)],
                    new_linked, k + 1)

RECURSIVE UnlinkLoop(_, _, _)
\* unlink_entry's second loop: give every remaining member the new link
\* record.  Each of the two unwrap()s panics on a coordinate that resolves
\* to nothing, leaving the map as rewritten so far.
UnlinkLoop(vs, new_linked, k) ==
    IF k > Len(new_linked)
    THEN [vectors |-> vs, status |-> "Ok", value |-> None]
    ELSE LET vector == new_linked[k][1]
             index  == new_linked[k][2]
         IN IF vector \notin DOMAIN vs
            THEN [vectors |-> vs, status |-> "Panic", value |-> None]
            ELSE IF BumpyGet(vs[vector], index) = None
            THEN [vectors |-> vs, status |-> "Panic", value |-> None]
            ELSE UnlinkLoop(
                    [vs EXCEPT ![vector] = SetLinked(@, index, new_linked)],
                    new_linked, k + 1)

\* A filter that keeps the remaining links in the reverse order.
RemainingLinks_reversed(original_links, vector, start) ==
    LET kept == SelectSeq(original_links,
                          LAMBDA c : ~(c[1] = vector /\ c[2] = start))
    IN [k \in 1 .. Len(kept) |-> kept[Len(kept) + 1 - k]]

\* A filter that compares the offset and forgets the vector name.
RemainingLinks_any_vector(original_links, vector, start) ==
    SelectSeq(original_links, LAMBDA c : c[2] # start)

\* What unlink_entry keeps of the original links: all but (vector, start).
RemainingLinks(original_links, vector, start) ==
    SelectSeq(original_links,
              LAMBDA c : ~(c[1] = vector /\ c[2] = start))

\* An unlink_entry that takes the requested offset for the entry's own.
unlink_entry_lookup_offset(vs, vector, index) ==
    IF vector \notin DOMAIN vs
    THEN [vectors |-> vs, status |-> "Err", value |-> "Couldn't find vector"]
    ELSE IF BumpyGet(vs[vector], index) = None
    THEN [vectors |-> vs, status |-> "Err", value |-> "Couldn't find index"]
    ELSE LET e == BumpyGet(vs[vector], index)[1]
         IN UnlinkLoop(
                [vs EXCEPT ![vector] =
                    SetLinked(@, index, << <<vector, index>> >>)],
                RemainingLinks(e.entry.linked, vector, index), 1)

\* An unlink_entry that leaves the requested entry its link record.
unlink_entry_keeps_self(vs, vector, index) ==
    IF vector \notin DOMAIN vs
    THEN [vectors |-> vs, status |-> "Err", value |-> "Couldn't find vector"]
    ELSE IF BumpyGet(vs[vector], index) = None
    THEN [vectors |-> vs, status |-> "Err", value |-> "Couldn't find index"]
    ELSE LET e == BumpyGet(vs[vector], index)[1]
         IN UnlinkLoop(vs, RemainingLinks(e.entry.linked, vector, e.index), 1)

\* An unlink_entry that refuses an entry that is linked to itself alone.
unlink_entry_refuses_singleton(vs, vector, index) ==
    IF vector \notin DOMAIN vs
    THEN [vectors |-> vs, status |-> "Err", value |-> "Couldn't find vector"]
    ELSE IF BumpyGet(vs[vector], index) = None
    THEN [vectors |-> vs, status |-> "Err", value |-> "Couldn't find index"]
    ELSE LET e == BumpyGet(vs[vector], index)[1]
         IN IF e.entry.linked = << <<vector, e.index>> >>
            THEN [vectors |-> vs, status |-> "Err",
                  value |-> "Entry is not linked"]
            ELSE UnlinkLoop(
                    [vs EXCEPT ![vector] =
                        SetLinked(@, index, << <<vector, e.index>> >>)],
                    RemainingLinks(e.entry.linked, vector, e.index), 1)

\* An unlink_entry that changes nothing.
unlink_entry_nothing(vs, vector, index) ==
    IF vector \notin DOMAIN vs
    THEN [vectors |-> vs, status |-> "Err", value |-> "Couldn't find vector"]
    ELSE IF BumpyGet(vs[vector], index) = None
    THEN [vectors |-> vs, status |-> "Err", value |-> "Couldn't find index"]
    ELSE [vectors |-> vs, status |-> "Ok", value |-> None]

unlink_entry(vs, vector, index) ==
    IF vector \notin DOMAIN vs
    THEN [vectors |-> vs, status |-> "Err", value |-> "Couldn't find vector"]
    ELSE IF BumpyGet(vs[vector], index) = None
    THEN [vectors |-> vs, status |-> "Err", value |-> "Couldn't find index"]
    ELSE LET e == BumpyGet(vs[vector], index)[1]
         IN UnlinkLoop(
                [vs EXCEPT ![vector] =
                    SetLinked(@, index, << <<vector, e.index>> >>)],
                RemainingLinks(e.entry.linked, vector, e.index), 1)

\* A get_entry that finds an entry through its start offset only.
get_entry_at_start(vs, vector, index) ==
    IF vector \notin DOMAIN vs THEN None
    ELSE IF \E e \in vs[vector].data : e.index = index
        THEN BumpyGet(vs[vector], index)
    ELSE None

get_entry(vs, vector, index) ==
    IF vector \notin DOMAIN vs THEN None ELSE BumpyGet(vs[vector], index)

\* A get_entries that looks the requested offset up for every slot.
get_entries_requested(vs, vector, index) ==
    IF vector \notin DOMAIN vs
    THEN [vectors |-> vs, status |-> "Err", value |-> "Couldn't find vector"]
    ELSE IF BumpyGet(vs[vector], index) = None
    THEN [vectors |-> vs, status |-> "Err", value |-> "Couldn't find index"]
    ELSE LET linked == BumpyGet(vs[vector], index)[1].entry.linked
         IN [vectors |-> vs, status |-> "Ok",
             value |-> [k \in 1 .. Len(linked) |->
                            get_entry(vs, vector, index)]]

get_entries(vs, vector, index) ==
    IF vector \notin DOMAIN vs
    THEN [vectors |-> vs, status |-> "Err", value |-> "Couldn't find vector"]
    ELSE IF BumpyGet(vs[vector], index) = None
    THEN [vectors |-> vs, status |-> "Err", value |-> "Couldn't find index"]
    ELSE LET linked == BumpyGet(vs[vector], index)[1].entry.linked
         IN [vectors |-> vs, status |-> "Ok",
             value |-> [k \in 1 .. Len(linked) |->
                            get_entry(vs, linked[k][1], linked[k][2])]]

RECURSIVE RemoveLoop_skip_missing(_, _, _, _)
\* A loop that reports nothing for a coordinate whose vector is missing.
RemoveLoop_skip_missing(vs, linked, k, results) ==
    IF k > Len(linked)
    THEN [vectors |-> vs, status |-> "Ok", value |-> results]
    ELSE LET vector == linked[k][1]
             index  == linked[k][2]
         IN IF vector \in DOMAIN vs
            THEN RemoveLoop_skip_missing(
                    [vs EXCEPT ![vector] = BumpyRemove(@, index)],
                    linked, k + 1,
                    Append(results, BumpyGet(vs[vector], index)))
            ELSE RemoveLoop_skip_missing(vs, linked, k + 1, results)

RECURSIVE RemoveLoop_keeps_first(_, _, _, _)
\* A loop that reports the entry at the first coordinate and leaves it.
RemoveLoop_keeps_first(vs, linked, k, results) ==
    IF k > Len(linked)
    THEN [vectors |-> vs, status |-> "Ok", value |-> results]
    ELSE LET vector == linked[k][1]
             index  == linked[k][2]
         IN IF vector \in DOMAIN vs
            THEN RemoveLoop_keeps_first(
                    IF k = 1 THEN vs
                    ELSE [vs EXCEPT ![vector] = BumpyRemove(@, index)],
                    linked, k + 1,
                    Append(results, BumpyGet(vs[vector], index)))
            ELSE RemoveLoop_keeps_first(vs, linked, k + 1,
                                        Append(results, None))

RECURSIVE RemoveLoop_reading(_, _, _, _)
\* A loop that reports the entries and removes none.
RemoveLoop_reading(vs, linked, k, results) ==
    IF k > Len(linked)
    THEN [vectors |-> vs, status |-> "Ok", value |-> results]
    ELSE RemoveLoop_reading(vs, linked, k + 1,
            Append(results, get_entry(vs, linked[k][1], linked[k][2])))

RECURSIVE RemoveLoop_prepends(_, _, _, _)
\* A loop that puts each result in front of the earlier ones.
RemoveLoop_prepends(vs, linked, k, results) ==
    IF k > Len(linked)
    THEN [vectors |-> vs, status |-> "Ok", value |-> results]
    ELSE LET vector == linked[k][1]
             index  == linked[k][2]
         IN IF vector \in DOMAIN vs
            THEN RemoveLoop_prepends(
                    [vs EXCEPT ![vector] = BumpyRemove(@, index)],
                    linked, k + 1,
                    <<BumpyGet(vs[vector], index)>> \o results)
            ELSE RemoveLoop_prepends(vs, linked, k + 1, <<None>> \o results)

RECURSIVE RemoveLoop(_, _, _, _)
\* remove_entries' for loop from coordinate k on.
RemoveLoop(vs, linked, k, results) ==
    IF k > Len(linked)
    THEN [vectors |-> vs, status |-> "Ok", value |-> results]
    ELSE LET vector == linked[k][1]
             index  == linked[k][2]
         IN IF vector \in DOMAIN vs
            THEN RemoveLoop(
                    [vs EXCEPT ![vector] = BumpyRemove(@, index)],
                    linked, k + 1,
                    Append(results, BumpyGet(vs[vector], index)))
            ELSE RemoveLoop(vs, linked, k + 1, Append(results, None))

\* A remove_entries that unlinks the requested entry and removes it alone.
remove_entries_unlinking(vs, vector, index) ==
    IF unlink_entry(vs, vector, index).status # "Ok"
    THEN unlink_entry(vs, vector, index)
    ELSE RemoveLoop(unlink_entry(vs, vector, index).vectors,
                    << <<vector, index>> >>, 1, <<>>)

\* A remove_entries that removes the requested entry and not its group.
remove_entries_single(vs, vector, index) ==
    IF vector \notin DOMAIN vs
    THEN [vectors |-> vs, status |-> "Err", value |-> "Couldn't find vector"]
    ELSE IF BumpyGet(vs[vector], index) = None
    THEN [vectors |-> vs, status |-> "Err", value |-> "Couldn't find index"]
    ELSE RemoveLoop(vs, << <<vector, index>> >>, 1, <<>>)

\* A remove_entries that takes an offset no entry covers for an empty group.
remove_entries_lenient(vs, vector, index) ==
    IF vector \notin DOMAIN vs
    THEN [vectors |-> vs, status |-> "Err", value |-> "Couldn't find vector"]
    ELSE IF BumpyGet(vs[vector], index) = None
    THEN [vectors |-> vs, status |-> "Ok", value |-> <<>>]
    ELSE RemoveLoop(vs, BumpyGet(vs[vector], index)[1].entry.linked, 1, <<>>)

remove_entries(vs, vector, index) ==
    IF vector \notin DOMAIN vs
    THEN [vectors |-> vs, status |-> "Err", value |-> "Couldn't find vector"]
    ELSE IF BumpyGet(vs[vector], index) = None
    THEN [vectors |-> vs, status |-> "Err", value |-> "Couldn't find index"]
    ELSE RemoveLoop(vs, BumpyGet(vs[vector], index)[1].entry.linked, 1, <<>>)

vector_count(vs) == Cardinality(DOMAIN vs)

vector_exists(vs, vector) == vector \in DOMAIN vs

len_vector(vs, vector) ==
    IF vector \notin DOMAIN vs THEN None ELSE Some(BumpyLen(vs[vector]))

max_size_vector(vs, vector) ==
    IF vector \notin DOMAIN vs THEN None ELSE Some(vs[vector].max_size)

RECURSIVE SumLen(_, _)
SumLen(vs, names) ==
    IF names = {} THEN 0
    ELSE LET n == CHOOSE x \in names : TRUE
         IN BumpyLen(vs[n]) + SumLen(vs, names \ {n})

len(vs) == SumLen(vs, DOMAIN vs)

---------------------------------------------------------------------------------------------------------------------------------------------------
(* The caller                                                              *)

NoCall == [op |-> "none", args |-> <<>>, status |-> "Ok", value |-> None]

\* The caller is between two calls.
Ready == ret.op = "none"

\* A call of `op` with `args` that produced `out`.
CallAs(op, args, out) ==
    /\ pre' = vectors
    /\ vectors' = out.vectors
    /\ ret' = [op |-> op, args |-> args,
               status |-> out.status, value |-> out.value]
    /\ UNCHANGED <<groups, created>>

\* A call that is not one of the usage example's.
Called(op, args, out) ==
    /\ CallAs(op, args, out)
    /\ UNCHANGED step

\* The items a caller may pass: <<vector, data, index, size>>.
Items ==
    {<<v, Payload(v, i, s), i, s>> : v \in Names, i \in Indices, s \in Sizes}

\* Whether `item` would be accepted after the items of `p` were: its vector
\* exists, its span is not empty, ends within max_size and meets neither a
\* stored entry nor an item of p.
Fits(vs, p, item) ==
    /\ item[1] \in DOMAIN vs
    /\ item[4] > 0
    /\ item[3] + item[4] <= vs[item[1]].max_size
    /\ \A e \in vs[item[1]].data :
            e.index + e.size <= item[3] \/ item[3] + item[4] <= e.index
    /\ \A k \in 1 .. Len(p) :
            \/ p[k][1] # item[1]
            \/ p[k][3] + p[k][4] <= item[3]
            \/ item[3] + item[4] <= p[k][3]

RECURSIVE FittingLists(_, _)
\* The lists of n items that fit one after the other.
FittingLists(vs, n) ==
    IF n = 0 THEN {<<>>}
    ELSE UNION {{Append(p, item) : item \in {i \in Items : Fits(vs, p, i)}} :
                    p \in FittingLists(vs, n - 1)}

\* Whether item list g has an item whose span holds (vector, index).
Member(g, vector, index) ==
    \E k \in 1 .. Len(g) :
        /\ g[k][1] = vector
        /\ g[k][3] <= index
        /\ index < g[k][3] + g[k][4]

\* Whether every item of g is stored in vs, where and as long as inserted.
Stored(vs, g) ==
    \A k \in 1 .. Len(g) :
        /\ g[k][1] \in DOMAIN vs
        /\ \E e \in vs[g[k][1]].data : e.index = g[k][3] /\ e.size = g[k][4]

\* `groups` once the call in `ret` has returned: a successful insert adds
\* its item list, an unlink_entry drops the list it names an item of, and
\* a list that is no longer stored whole is dropped.
GroupsAfter ==
    LET added ==
            IF ret.status # "Ok" THEN {}
            ELSE IF ret.op = "insert_entries" /\ ret.args # <<>>
                THEN {ret.args}
            ELSE IF ret.op = "insert_entry" THEN {<<ret.args>>}
            ELSE {}
    IN {g \in groups \cup added :
            /\ Stored(vectors, g)
            /\ ~(ret.op = "unlink_entry" /\ Member(g, ret.args[1], ret.args[2]))}

\* `created` once the call in `ret` has returned.
CreatedAfter ==
    IF ret.op = "create_vector" /\ ret.status = "Ok"
        THEN MapInsert(created, ret.args[1], ret.args[2])
    ELSE IF ret.op = "destroy_vector" /\ ret.status = "Ok"
        THEN MapRemove(created, ret.args[1])
    ELSE created

RECURSIVE SumMaxSize(_, _)
SumMaxSize(vs, names) ==
    IF names = {} THEN 0
    ELSE LET n == CHOOSE x \in names : TRUE
         IN vs[n].max_size + SumMaxSize(vs, names \ {n})

\* The space the caller has created so far.
Capacity(vs) == SumMaxSize(vs, DOMAIN vs)

Init ==
    /\ vectors = new
    /\ pre = new
    /\ ret = NoCall
    /\ groups = {}
    /\ created = <<>>
    /\ step = 0

\* A caller creates vectors of at most MaxTotal units in all; a call that
\* names an existing vector is refused whatever its size.
CreateVector ==
    /\ Ready
    /\ \E name \in Names, max_size \in 1 .. MaxSize :
           /\ name \in DOMAIN vectors \/ max_size + Capacity(vectors) <= MaxTotal
           /\ Called("create_vector", <<name, max_size>>,
                  create_vector(vectors, name, max_size))

DestroyVector ==
    /\ Ready
    /\ \E vector \in Names :
           Called("destroy_vector", <<vector>>,
                  destroy_vector(vectors, vector))

\* The list p with `item` put after its first j items.
InsertAt(p, j, item) ==
    SubSeq(p, 1, j) \o <<item>> \o SubSeq(p, j + 1, Len(p))

\* The caller passes at most MaxGroup items: a list whose items all fit, or
\* such a list with one item that is refused put in at any position.
InsertEntries ==
    /\ Ready
    /\ \E n \in 0 .. MaxGroup :
           \E p \in FittingLists(vectors, n) :
               \/ Called("insert_entries", p, insert_entries(vectors, p))
               \/ /\ n < MaxGroup
                  /\ \E j \in 0 .. n :
                         \E item \in {i \in Items :
                                        ~Fits(vectors, SubSeq(p, 1, j), i)} :
                             Called("insert_entries", InsertAt(p, j, item),
                                    insert_entries(vectors,
                                                   InsertAt(p, j, item)))

InsertEntry ==
    /\ Ready
    /\ \E item \in Items :
           Called("insert_entry", item,
                  insert_entry(vectors, item[1], item[2], item[3], item[4]))

UnlinkEntry ==
    /\ Ready
    /\ \E vector \in Names, index \in Indices :
           Called("unlink_entry", <<vector, index>>,
                  unlink_entry(vectors, vector, index))

GetEntry ==
    /\ Ready
    /\ \E vector \in Names, index \in Indices :
           Called("get_entry", <<vector, index>>,
                  [vectors |-> vectors, status |-> "Ok",
                   value |-> get_entry(vectors, vector, index)])

GetEntries ==
    /\ Ready
    /\ \E vector \in Names, index \in Indices :
           Called("get_entries", <<vector, index>>,
                  get_entries(vectors, vector, index))

RemoveEntries ==
    /\ Ready
    /\ \E vector \in Names, index \in Indices :
           Called("remove_entries", <<vector, index>>,
                  remove_entries(vectors, vector, index))

\* The caller takes the result; a panic ends the run.
Return ==
    /\ ~Ready
    /\ ret.status # "Panic"
    /\ ret' = NoCall
    /\ pre' = vectors
    /\ groups' = GroupsAfter
    /\ created' = CreatedAfter
    /\ UNCHANGED <<vectors, step>>

Next ==
    \/ CreateVector
    \/ DestroyVector
    \/ InsertEntries
    \/ InsertEntry
    \/ UnlinkEntry
    \/ GetEntry
    \/ GetEntries
    \/ RemoveEntries
    \/ Return

Spec == Init /\ [][Next]_vars

----------------------------------------------------------------------------
(* A deserialized MultiVector.  MultiVector and MultiEntry derive          *)
(* Deserialize, so that a loaded map holds whatever link records the       *)
(* input holds.  The loaded maps here: a vector A of max_size MaxSize and  *)
(* possibly a vector B of max_size 1, any entries in them, each linked to  *)
(* itself alone but for one whose link record is any list of at most       *)
(* MaxLinks coordinates.                                                   *)

\* The spans <<index, size>> an entry of a vector of max_size can have.
Spans(max_size) ==
    {sp \in (0 .. max_size - 1) \X (1 .. max_size) : sp[1] + sp[2] <= max_size}

\* The sets of spans that do not overlap.
Layouts(max_size) ==
    {l \in SUBSET Spans(max_size) :
        \A a, b \in l : a = b \/ a[1] + a[2] <= b[1] \/ b[1] + b[2] <= a[1]}

\* The coordinates a loaded link record may hold.
Coordinates2 == Names \X (0 .. MaxSize - 1)

\* The link records a loaded entry may hold.
LinkRecords == UNION {[1 .. n -> Coordinates2] : n \in 0 .. MaxLinks}

\* The loaded vector `name` with an entry on every span of `layout`; the
\* entry at `odd` holds `linked`, the others name themselves.
LoadedVector(name, max_size, layout, odd, linked) ==
    [max_size |-> max_size,
     data |-> {[entry |-> [vector |-> name,
                           linked |-> IF <<name, sp[1]>> = odd THEN linked
                                      ELSE << <<name, sp[1]>> >>,
                           data |-> Payload(name, sp[1], sp[2])],
                index |-> sp[1], size |-> sp[2]] : sp \in layout}]

InitLoaded ==
    /\ \E la \in Layouts(MaxSize), lb \in Layouts(1), hasB \in BOOLEAN :
          \E odd \in {<<"A", sp[1]>> : sp \in la}
                        \cup {<<"B", sp[1]>> : sp \in IF hasB THEN lb ELSE {}} :
              \E linked \in LinkRecords :
                  vectors = [n \in IF hasB THEN {"A", "B"} ELSE {"A"} |->
                                IF n = "A"
                                THEN LoadedVector("A", MaxSize, la, odd, linked)
                                ELSE LoadedVector("B", 1, lb, odd, linked)]
    /\ pre = vectors
    /\ ret = NoCall
    /\ groups = {}
    /\ created = [n \in DOMAIN vectors |-> vectors[n].max_size]
    /\ step = 0

NextLoaded ==
    \/ UnlinkEntry
    \/ GetEntry
    \/ GetEntries
    \/ RemoveEntries
    \/ Return

SpecLoaded == InitLoaded /\ [][NextLoaded]_vars

----------------------------------------------------------------------------
(* The usage example of the crate's documentation, call by call, with      *)
(* "A" for myvector1 and "B" for myvector2.  Between two of its calls the  *)
(* caller may read the MultiVector.                                        *)

Scenario ==
    << [op |-> "create_vector", args |-> <<"A", 100>>],
       [op |-> "create_vector", args |-> <<"B", 200>>],
       [op |-> "create_vector", args |-> <<"A", 100>>],
       [op |-> "insert_entries",
        args |-> << <<"A", 111, 0, 10>>, <<"A", 222, 10, 10>> >>],
       [op |-> "insert_entries",
        args |-> << <<"A", 111, 20, 10>>, <<"B", 222, 0, 10>>,
                    <<"B", 222, 10, 10>> >>],
       [op |-> "remove_entries", args |-> <<"A", 15>>],
       [op |-> "destroy_vector", args |-> <<"A">>],
       [op |-> "unlink_entry", args |-> <<"A", 20>>],
       [op |-> "remove_entries", args |-> <<"A", 20>>],
       [op |-> "destroy_vector", args |-> <<"A">>] >>

\* What the method named by `call` returns on vs.
Apply(vs, call) ==
    CASE call.op = "create_vector" ->
            create_vector(vs, call.args[1], call.args[2])
      [] call.op = "destroy_vector" -> destroy_vector(vs, call.args[1])
      [] call.op = "insert_entries" -> insert_entries(vs, call.args)
      [] call.op = "unlink_entry" ->
            unlink_entry(vs, call.args[1], call.args[2])
      [] call.op = "remove_entries" ->
            remove_entries(vs, call.args[1], call.args[2])

\* The next call of the example.
ScenarioCall ==
    /\ Ready
    /\ step < Len(Scenario)
    /\ CallAs(Scenario[step + 1].op, Scenario[step + 1].args,
              Apply(vectors, Scenario[step + 1]))
    /\ step' = step + 1

\* The offsets the caller reads at: the start, the middle and the end of
\* the spans the example uses, and past them.
ScenarioOffsets == {0, 5, 9, 10, 15, 20, 25, 30, 100}

\* A read between two calls of the example.
ScenarioRead ==
    /\ Ready
    /\ \E vector \in Names, index \in ScenarioOffsets :
           \/ Called("get_entry", <<vector, index>>,
                     [vectors |-> vectors, status |-> "Ok",
                      value |-> get_entry(vectors, vector, index)])
           \/ Called("get_entries", <<vector, index>>,
                     get_entries(vectors, vector, index))

NextScenario ==
    \/ ScenarioCall
    \/ ScenarioRead
    \/ Return

SpecScenario == Init /\ [][NextScenario]_vars

----------------------------------------------------------------------------
(* Properties                                                              *)

\* The last call was an insert_entries or an insert_entry.
IsInsert == ret.op \in {"insert_entries", "insert_entry"}

\* The item list of the last insert (insert_entry passes a list of one).
InsertArgs == IF ret.op = "insert_entry" THEN <<ret.args>> ELSE ret.args

\* The (vector, index) of every item of a list, in the list's order.
Coordinates(items) ==
    [k \in 1 .. Len(items) |-> <<items[k][1], items[k][3]>>]

\* The entry an item is stored as when it belongs to the group `items`.
EntryOf(item, items) ==
    [entry |-> [vector |-> item[1], linked |-> Coordinates(items),
                data |-> item[2]],
     index |-> item[3], size |-> item[4]]

\* Some item of the list is refused: its vector is unknown, its size is
\* zero, it ends past max_size, or it overlaps a stored entry or an earlier
\* item of the list.
Refused(vs, items) ==
    \E k \in 1 .. Len(items) : ~Fits(vs, SubSeq(items, 1, k - 1), items[k])

\* C1: an insert_entries (or insert_entry) call with an item that is refused,
\* for whatever cause and at whatever position, returns Err and leaves the
\* whole MultiVector as it was before the call; len() is unchanged.
C1_FailedInsertRestores ==
    (IsInsert /\ Refused(pre, InsertArgs)) =>
        /\ ret.status = "Err"
        /\ vectors = pre
        /\ len(vectors) = len(pre)

\* C1's case: a call of three items into a non-empty MultiVector whose
\* second item overlaps the first one (and no stored entry) and is followed
\* by a third; the first item was inserted and rolled back.
C1_Witness ==
    /\ ret.op = "insert_entries"
    /\ ret.status = "Err"
    /\ ret.value = "overlap"
    /\ Len(ret.args) >= 3
    /\ len(pre) > 0
    /\ Fits(pre, <<>>, ret.args[1])
    /\ Fits(pre, <<>>, ret.args[2])
    /\ ~Fits(pre, <<ret.args[1]>>, ret.args[2])

\* C2: after a successful insert, every item is stored in its vector at its
\* offset with its size and payload, and each carries the coordinates of all
\* the items of the call in the caller's order (itself alone for one item).
C2_InsertedGroupIsLinked ==
    (IsInsert /\ ret.status = "Ok") =>
        \A k \in 1 .. Len(InsertArgs) :
            /\ InsertArgs[k][1] \in DOMAIN vectors
            /\ EntryOf(InsertArgs[k], InsertArgs)
                    \in vectors[InsertArgs[k][1]].data

\* C2's case: three items inserted into two vectors beside stored entries.
C2_Witness ==
    /\ ret.op = "insert_entries"
    /\ ret.status = "Ok"
    /\ Len(ret.args) >= 3
    /\ {ret.args[k][1] : k \in 1 .. Len(ret.args)} = Names
    /\ len(pre) > 0

\* The map vs without the entries of the set `gone`.
Without(vs, gone) ==
    [n \in DOMAIN vs |-> [vs[n] EXCEPT !.data = @ \ gone]]

\* The entries an intact group g is stored as.
EntriesOf(g) == {EntryOf(g[k], g) : k \in 1 .. Len(g)}

\* C3: remove_entries at any offset inside any member of a group that was
\* inserted as N items and not unlinked since returns Ok with the N entries,
\* all present, in insertion order, removes exactly them, and len() drops
\* by N.
C3_RemoveReturnsWholeGroup ==
    (ret.op = "remove_entries") =>
        \A g \in groups :
            Member(g, ret.args[1], ret.args[2]) =>
                /\ ret.status = "Ok"
                /\ ret.value = [k \in 1 .. Len(g) |-> Some(EntryOf(g[k], g))]
                /\ vectors = Without(pre, EntriesOf(g))
                /\ EntriesOf(g) \subseteq UNION {pre[n].data : n \in DOMAIN pre}
                /\ len(vectors) = len(pre) - Len(g)

\* C3's case: a group of three is removed through an offset that is inside
\* a member's span and not its start.
C3_Witness ==
    /\ ret.op = "remove_entries"
    /\ ret.status = "Ok"
    /\ \E g \in groups :
            /\ Len(g) >= 3
            /\ \E k \in 1 .. Len(g) :
                    /\ g[k][1] = ret.args[1]
                    /\ g[k][3] < ret.args[2]
                    /\ ret.args[2] < g[k][3] + g[k][4]

\* The entry of vs[vector] that covers index (one exists).
EntryAt(vs, vector, index) == CHOOSE e \in Covering(vs[vector], index) : TRUE

\* The number of entries that a call which returned `out` from vs removed.
Removed(vs, out) == len(vs) - len(out.vectors)

\* C4: once unlink_entry at a member e of a group of N has succeeded,
\* remove_entries at e returns and removes e alone, and remove_entries at
\* any other member of the group, before or after that, returns and removes
\* exactly N-1 entries, e not among them.
C4_UnlinkThenRemove ==
    (ret.op = "unlink_entry" /\ ret.status = "Ok") =>
        LET vector == ret.args[1]
            e      == EntryAt(pre, vector, ret.args[2])
            linked == e.entry.linked
            N      == Len(linked)
            alone  == [e EXCEPT !.entry.linked = << <<vector, e.index>> >>]
            one    == remove_entries(vectors, vector, ret.args[2])
        IN /\ one.status = "Ok"
           /\ one.value = <<Some(alone)>>
           /\ one.vectors = Without(vectors, {alone})
           /\ Removed(vectors, one) = 1
           /\ \A k \in 1 .. N :
                  linked[k] # <<vector, e.index>> =>
                      \A vs \in {vectors, one.vectors} :
                          LET rest == remove_entries(vs, linked[k][1],
                                                     linked[k][2])
                          IN /\ rest.status = "Ok"
                             /\ Len(rest.value) = N - 1
                             /\ \A j \in 1 .. N - 1 :
                                    /\ rest.value[j] # None
                                    /\ rest.value[j][1].index # e.index
                                        \/ rest.value[j][1].entry.vector
                                                # vector
                             /\ Removed(vs, rest) = N - 1

\* C4's case: a member of a group of three was unlinked.
C4_Witness ==
    /\ ret.op = "unlink_entry"
    /\ ret.status = "Ok"
    /\ Len(EntryAt(pre, ret.args[1], ret.args[2]).entry.linked) >= 3

\* C5: every coordinate of every stored entry's link record names an
\* existing vector and an entry that starts there and carries the same
\* link record.
C5_GroupsConsistent ==
    \A n \in DOMAIN vectors :
        \A e \in vectors[n].data :
            \A k \in 1 .. Len(e.entry.linked) :
                /\ e.entry.linked[k][1] \in DOMAIN vectors
                /\ \E f \in vectors[e.entry.linked[k][1]].data :
                        /\ f.index = e.entry.linked[k][2]
                        /\ f.entry.linked = e.entry.linked

\* C5's case: an unlink_entry has rewritten the link records of a group
\* that still has two members or more.
C5_Witness ==
    /\ ret.op = "unlink_entry"
    /\ ret.status = "Ok"
    /\ vectors # pre
    /\ \E n \in DOMAIN vectors :
            \E e \in vectors[n].data :
                /\ Len(e.entry.linked) >= 2
                /\ e \notin pre[n].data

\* C6: destroy_vector of an unknown name or of a vector that holds an entry
\* returns Err and changes nothing; otherwise it removes that vector only
\* and returns the max_size its create_vector was given.
C6_DestroyVector ==
    (ret.op = "destroy_vector") =>
        IF ret.args[1] \notin DOMAIN pre
        THEN ret.status = "Err" /\ vectors = pre
        ELSE IF pre[ret.args[1]].data # {}
        THEN ret.status = "Err" /\ vectors = pre
        ELSE /\ ret.status = "Ok"
             /\ DOMAIN vectors = DOMAIN pre \ {ret.args[1]}
             /\ \A n \in DOMAIN vectors : vectors[n] = pre[n]
             /\ ret.value = created[ret.args[1]]

\* C6's case: an empty vector of max_size 2 or more is destroyed beside a
\* vector that holds entries.
C6_Witness ==
    /\ ret.op = "destroy_vector"
    /\ ret.status = "Ok"
    /\ len(vectors) > 0
    /\ ret.value > 1

\* C7: create_vector of an existing name returns Err and changes nothing
\* (vector_count, the vector's max_size and its entries stay); of a new
\* name it adds one empty vector of that max_size and changes nothing else.
C7_CreateVector ==
    (ret.op = "create_vector") =>
        IF ret.args[1] \in DOMAIN pre
        THEN /\ ret.status = "Err"
             /\ vector_count(vectors) = vector_count(pre)
             /\ vectors = pre
        ELSE /\ ret.status = "Ok"
             /\ DOMAIN vectors = DOMAIN pre \cup {ret.args[1]}
             /\ vectors[ret.args[1]] = [max_size |-> ret.args[2], data |-> {}]
             /\ \A n \in DOMAIN pre : vectors[n] = pre[n]

\* C7's case: the name belongs to a vector that holds entries and has
\* another max_size than the one asked for.
C7_Witness ==
    /\ ret.op = "create_vector"
    /\ ret.status = "Err"
    /\ pre[ret.args[1]].data # {}
    /\ pre[ret.args[1]].max_size # ret.args[2]

\* What looking up coordinate c in vs yields.
Lookup(vs, c) ==
    IF c[1] \in DOMAIN vs /\ Covering(vs[c[1]], c[2]) # {}
        THEN Some(EntryAt(vs, c[1], c[2]))
        ELSE None

\* C8: get_entries at an offset that an entry covers returns Ok with one
\* slot per coordinate of that entry's link record, the k-th slot being
\* what the k-th coordinate resolves to; every member and every offset of
\* the group gives the same list; nothing changes.
C8_GetEntries ==
    (/\ ret.op = "get_entries"
     /\ ret.args[1] \in DOMAIN pre
     /\ Covering(pre[ret.args[1]], ret.args[2]) # {}) =>
        LET linked == EntryAt(pre, ret.args[1], ret.args[2]).entry.linked
        IN /\ ret.status = "Ok"
           /\ vectors = pre
           /\ Len(ret.value) = Len(linked)
           /\ \A k \in 1 .. Len(linked) :
                  /\ ret.value[k] = Lookup(pre, linked[k])
                  /\ ret.value[k] # None =>
                        \A i \in Indices :
                            ret.value[k][1] \in
                                    Covering(pre[linked[k][1]], i) =>
                                get_entries(pre, linked[k][1], i).value
                                    = ret.value

\* C8's case: a group of three is read through an offset inside the span
\* of a member that is not the first of the group.
C8_Witness ==
    /\ ret.op = "get_entries"
    /\ ret.status = "Ok"
    /\ Len(ret.value) >= 3
    /\ ret.value[1] # Lookup(pre, ret.args)
    /\ \E k \in 1 .. Len(ret.value) :
            /\ ret.value[k] = Lookup(pre, ret.args)
            /\ ret.value[k][1].index < ret.args[2]

\* C9: unlink_entry, get_entries and remove_entries return Err and change
\* nothing when the vector does not exist or no entry covers the offset.
C9_MissingEntryIsErr ==
    (/\ ret.op \in {"unlink_entry", "get_entries", "remove_entries"}
     /\ Lookup(pre, ret.args) = None) =>
        /\ ret.status = "Err"
        /\ vectors = pre

\* C9's case: an unlink_entry at an offset past the max_size of a vector
\* that holds an entry.
C9_Witness ==
    /\ ret.op = "unlink_entry"
    /\ ret.status = "Err"
    /\ ret.args[1] \in DOMAIN pre
    /\ pre[ret.args[1]].data # {}
    /\ ret.args[2] >= pre[ret.args[1]].max_size

\* Some stored link record of vs holds a coordinate that resolves to nothing.
HasDangling(vs) ==
    \E n \in DOMAIN vs :
        \E e \in vs[n].data :
            \E k \in 1 .. Len(e.entry.linked) :
                Lookup(vs, e.entry.linked[k]) = None

\* The entries that the coordinates of `linked` resolve to in vs.
Resolved(vs, linked) ==
    {Lookup(vs, linked[k])[1] :
        k \in {j \in 1 .. Len(linked) : Lookup(vs, linked[j]) # None}}

\* C10 as stated: where link records hold dangling coordinates, get_entries
\* and remove_entries at an existing entry return Ok with one slot per
\* coordinate, None for each dangling coordinate and the entry present
\* there for every other; remove_entries removes exactly the present ones.
C10_Stated ==
    (/\ ret.op \in {"get_entries", "remove_entries"}
     /\ HasDangling(pre)
     /\ Lookup(pre, ret.args) # None) =>
        LET linked == Lookup(pre, ret.args)[1].entry.linked
        IN /\ ret.status = "Ok"
           /\ Len(ret.value) = Len(linked)
           /\ \A k \in 1 .. Len(linked) :
                  ret.value[k] = Lookup(pre, linked[k])
           /\ vectors = IF ret.op = "get_entries" THEN pre
                        ELSE Without(pre, Resolved(pre, linked))

\* C10 amended: as stated, but a slot of remove_entries is also None when an
\* earlier coordinate of the record resolved to the same entry (the
\* coordinate is repeated, or two coordinates lie in one entry's span): the
\* entry was removed and returned at the earlier slot.
C10_DanglingSlots ==
    (/\ ret.op \in {"get_entries", "remove_entries"}
     /\ HasDangling(pre)
     /\ Lookup(pre, ret.args) # None) =>
        LET linked == Lookup(pre, ret.args)[1].entry.linked
        IN /\ ret.status = "Ok"
           /\ Len(ret.value) = Len(linked)
           /\ \A k \in 1 .. Len(linked) :
                  ret.value[k] =
                      IF /\ ret.op = "remove_entries"
                         /\ \E j \in 1 .. k - 1 :
                                Lookup(pre, linked[j]) = Lookup(pre, linked[k])
                      THEN None
                      ELSE Lookup(pre, linked[k])
           /\ vectors = IF ret.op = "get_entries" THEN pre
                        ELSE Without(pre, Resolved(pre, linked))

\* C10's case: remove_entries through a record that holds a dangling
\* coordinate, a coordinate whose entry it returns, and a later coordinate
\* of that same entry.
C10_Witness ==
    /\ ret.op = "remove_entries"
    /\ ret.status = "Ok"
    /\ Lookup(pre, ret.args) # None
    /\ LET linked == Lookup(pre, ret.args)[1].entry.linked
       IN /\ \E k \in 1 .. Len(linked) : Lookup(pre, linked[k]) = None
          /\ \E k \in 1 .. Len(linked) : ret.value[k] # None
          /\ \E k \in 1 .. Len(linked) :
                 ret.value[k] = None /\ Lookup(pre, linked[k]) # None

\* C11 as stated: unlink_entry at an existing entry returns Ok or Err and
\* never panics, whatever the link records hold.
C11_UnlinkNeverFaults ==
    (ret.op = "unlink_entry" /\ Lookup(pre, ret.args) # None) =>
        ret.status \in {"Ok", "Err"}

\* C12: get_entry returns the stored entry whose span holds the offset, for
\* every offset of the span, and None when the vector is unknown or no entry
\* covers the offset (an offset at or past max_size included); it returns a
\* single entry whatever that entry is linked to, and changes nothing.
C12_GetEntry ==
    /\ \A n \in DOMAIN vectors :
           \A e \in vectors[n].data :
               \A i \in e.index .. e.index + e.size - 1 :
                   get_entry(vectors, n, i) = Some(e)
    /\ (ret.op = "get_entry") =>
           /\ vectors = pre
           /\ ret.status = "Ok"
           /\ IF ret.args[1] \notin DOMAIN pre THEN ret.value = None
              ELSE IF ret.args[2] >= pre[ret.args[1]].max_size
                  THEN ret.value = None
              ELSE LET hit == {e \in pre[ret.args[1]].data :
                                  /\ e.index <= ret.args[2]
                                  /\ ret.args[2] < e.index + e.size}
                   IN IF hit = {} THEN ret.value = None
                      ELSE \E e \in hit : ret.value = Some(e)

\* C12's case: get_entry at an offset after the start of a member of a group
\* of two or more returns that member.
C12_Witness ==
    /\ ret.op = "get_entry"
    /\ ret.value # None
    /\ ret.value[1].index < ret.args[2]
    /\ Len(ret.value[1].entry.linked) >= 2

\* C13: insert_entries with an empty item list returns Ok and leaves the
\* whole MultiVector as it was.
C13_EmptyInsert ==
    (ret.op = "insert_entries" /\ Len(ret.args) = 0) =>
        /\ ret.status = "Ok"
        /\ vectors = pre

\* C13's case: an empty list is inserted into a MultiVector that holds
\* entries.
C13_Witness ==
    /\ ret.op = "insert_entries"
    /\ Len(ret.args) = 0
    /\ ret.status = "Ok"
    /\ len(pre) > 0

\* The last call was call k of the usage example.
ScenarioAt(k) == step = k /\ ret.op = Scenario[k].op

\* len() after each call of the usage example.
ScenarioLen == <<0, 0, 0, 2, 5, 3, 3, 3, 2, 2>>

\* C14: the usage example holds call by call: with A of max_size 100 and B
\* of max_size 200, the first group gives len() 2 and the second 5;
\* remove_entries(A, 15) returns 2 entries and leaves 3; destroy_vector(A)
\* fails; unlink_entry(A, 20) succeeds; remove_entries(A, 20) returns 1
\* entry and leaves 2, both in B; destroy_vector(A) succeeds with 100.
C14_Scenario ==
    /\ step > 0 => len(vectors) = ScenarioLen[step]
    /\ ScenarioAt(1) => ret.status = "Ok"
    /\ ScenarioAt(2) =>
           /\ ret.status = "Ok"
           /\ max_size_vector(vectors, "A") = Some(100)
           /\ max_size_vector(vectors, "B") = Some(200)
    /\ ScenarioAt(3) => ret.status = "Err"
    /\ ScenarioAt(4) => ret.status = "Ok"
    /\ ScenarioAt(5) => ret.status = "Ok"
    /\ ScenarioAt(6) => ret.status = "Ok" /\ Len(ret.value) = 2
    /\ ScenarioAt(7) => ret.status = "Err" /\ vectors = pre
    /\ ScenarioAt(8) => ret.status = "Ok"
    /\ ScenarioAt(9) =>
           /\ ret.status = "Ok"
           /\ Len(ret.value) = 1
           /\ len_vector(vectors, "A") = Some(0)
           /\ len_vector(vectors, "B") = Some(2)
    /\ ScenarioAt(10) =>
           /\ ret.status = "Ok"
           /\ ret.value = 100
           /\ ~vector_exists(vectors, "A")

\* C14's case: the last call of the example has returned.
C14_Witness ==
    /\ step = Len(Scenario)
    /\ ret.op = "destroy_vector"
    /\ ret.status = "Ok"
    /\ len(vectors) = 2

\* C15: in every reachable state every stored entry has a size above 0 and
\* ends at or before the max_size of its vector, and no two entries of one
\* vector overlap.
C15_EntriesWellPlaced ==
    \A n \in DOMAIN vectors :
        /\ \A e \in vectors[n].data :
               /\ e.size > 0
               /\ e.index + e.size <= vectors[n].max_size
        /\ \A e, f \in vectors[n].data :
               \/ e = f
               \/ e.index + e.size <= f.index
               \/ f.index + f.size <= e.index

\* C15's case: an insert of two items or more was refused for an overlap
\* after its first item was stored, in a MultiVector with a vector that two
\* entries fill to its max_size.
C15_Witness ==
    /\ ret.op = "insert_entries"
    /\ ret.status = "Err"
    /\ ret.value = "overlap"
    /\ Len(ret.args) >= 2
    /\ Fits(pre, <<>>, ret.args[1])
    /\ \E n \in DOMAIN vectors :
           \E e, f \in vectors[n].data :
               /\ e.index + e.size = f.index
               /\ f.index + f.size = vectors[n].max_size

\* The last call was a successful unlink_entry.
Unlinked == ret.op = "unlink_entry" /\ ret.status = "Ok"

\* The entry the last unlink_entry was called at, as it was before the call.
UnlinkedEntry == EntryAt(pre, ret.args[1], ret.args[2])

\* The coordinate of the entry the last unlink_entry was called at.
SelfCoord == <<ret.args[1], UnlinkedEntry.index>>

\* The link record L without the coordinate c, the rest in L's order.
Strike(L, c) == SelectSeq(L, LAMBDA x : x # c)

\* C16: unlink_entry takes the entry's own coordinate from its stored start
\* offset: called at any offset of the entry's span it leaves the state that
\* the call at the start offset leaves, the entry linked to (vector, start)
\* alone and that coordinate in no sibling's link record.
C16_UnlinkUsesStart ==
    Unlinked =>
        /\ vectors = unlink_entry(pre, ret.args[1], UnlinkedEntry.index).vectors
        /\ \A i \in UnlinkedEntry.index ..
                     UnlinkedEntry.index + UnlinkedEntry.size - 1 :
               unlink_entry(pre, ret.args[1], i).vectors = vectors
        /\ Lookup(vectors, SelfCoord)[1].entry.linked = <<SelfCoord>>
        /\ \A k \in 1 .. Len(UnlinkedEntry.entry.linked) :
               UnlinkedEntry.entry.linked[k] # SelfCoord =>
                   \A j \in 1 .. Len(Lookup(vectors,
                           UnlinkedEntry.entry.linked[k])[1].entry.linked) :
                       Lookup(vectors, UnlinkedEntry.entry.linked[k])[1]
                            .entry.linked[j] # SelfCoord

\* C16's case: a member of size 2 or more of a group of two or more is
\* unlinked through an offset after its start.
C16_Witness ==
    /\ Unlinked
    /\ UnlinkedEntry.index < ret.args[2]
    /\ Len(UnlinkedEntry.entry.linked) >= 2

\* C17: after a successful unlink_entry at member e of a group with link
\* record L, every other member's link record is L without e's coordinate,
\* the rest in L's order; the survivor of a group of two is linked to
\* itself alone.
C17_SiblingsKeepOrder ==
    Unlinked =>
        LET L == UnlinkedEntry.entry.linked
        IN \A k \in 1 .. Len(L) :
               L[k] # SelfCoord =>
                   /\ Lookup(vectors, L[k]) # None
                   /\ Lookup(vectors, L[k])[1].entry.linked
                          = Strike(L, SelfCoord)
                   /\ Len(L) = 2 =>
                          Lookup(vectors, L[k])[1].entry.linked = <<L[k]>>

\* C17's case: the middle member of a group of three is unlinked, the two
\* others being in different vectors.
C17_Witness ==
    /\ Unlinked
    /\ Len(UnlinkedEntry.entry.linked) = 3
    /\ UnlinkedEntry.entry.linked[2] = SelfCoord
    /\ UnlinkedEntry.entry.linked[1][1] # UnlinkedEntry.entry.linked[3][1]

\* An entry without its link record.
Unlinkless(e) == [e EXCEPT !.entry.linked = <<>>]

\* Whether (vector, e.index) is a coordinate of the link record L.
InRecord(L, vector, e) ==
    \E k \in 1 .. Len(L) : L[k] = <<vector, e.index>>

\* C18: a successful unlink_entry changes link records of members of the
\* unlinked entry's group and nothing else: the vectors, their max_size,
\* len() and len_vector, every entry's offset, size and data, and the link
\* records of the entries of other groups stay.
C18_UnlinkFrame ==
    Unlinked =>
        /\ DOMAIN vectors = DOMAIN pre
        /\ len(vectors) = len(pre)
        /\ \A n \in DOMAIN pre :
               /\ vectors[n].max_size = pre[n].max_size
               /\ len_vector(vectors, n) = len_vector(pre, n)
               /\ {Unlinkless(e) : e \in vectors[n].data}
                      = {Unlinkless(e) : e \in pre[n].data}
               /\ \A e \in pre[n].data :
                      ~InRecord(UnlinkedEntry.entry.linked, n, e) =>
                          e \in vectors[n].data

\* C18's case: a member of a group of two or more is unlinked while two
\* vectors hold entries of another group.
C18_Witness ==
    /\ Unlinked
    /\ Len(UnlinkedEntry.entry.linked) >= 2
    /\ \E g \in groups :
           /\ ~Member(g, ret.args[1], ret.args[2])
           /\ {g[k][1] : k \in 1 .. Len(g)} = Names

\* C19: a call of any method but unlink_entry leaves every entry that is
\* stored before the call and still stored after it as it was: offset, size,
\* data and link record.
C19_OnlyUnlinkRewrites ==
    (~Ready /\ ret.op # "unlink_entry") =>
        \A n \in DOMAIN pre \cap DOMAIN vectors :
            \A e \in pre[n].data :
                \A f \in vectors[n].data :
                    (f.index = e.index \/ f.entry.data = e.entry.data) =>
                        f = e

\* C19's case: a group is removed from a MultiVector that keeps a group of
\* two or more.
C19_Witness ==
    /\ ret.op = "remove_entries"
    /\ ret.status = "Ok"
    /\ Len(ret.value) >= 2
    /\ \E n \in DOMAIN vectors :
           \E e \in vectors[n].data : Len(e.entry.linked) >= 2

\* The step is a successful unlink_entry call.
UnlinkStep == Ready /\ ret'.op = "unlink_entry" /\ ret'.status = "Ok"

\* The step is a successful insert_entries or insert_entry call.
InsertStep ==
    /\ Ready
    /\ ret'.op \in {"insert_entries", "insert_entry"}
    /\ ret'.status = "Ok"

\* What a step makes of the length of the link record of entry e of vector
\* n, found again as f: 1 for the entry an unlink_entry is called at, one
\* less for its siblings, the same in every other case.
LengthStep(n, e, f) ==
    IF UnlinkStep /\ e \in Covering(vectors[ret'.args[1]], ret'.args[2])
                 /\ n = ret'.args[1]
        THEN Len(f.entry.linked) = 1
    ELSE IF /\ UnlinkStep
            /\ InRecord(EntryAt(vectors, ret'.args[1], ret'.args[2])
                            .entry.linked, n, e)
        THEN Len(f.entry.linked) = Len(e.entry.linked) - 1
    ELSE Len(f.entry.linked) = Len(e.entry.linked)

\* C20: while an entry stays stored the length of its link record never
\* grows: the insert that stores it fixes it at the number of items of the
\* call, the unlink_entry of a sibling takes one off, its own unlink_entry
\* makes it 1, and a record of length 1 stays of length 1.
C20_MembershipSteps ==
    [][\A n \in DOMAIN vectors' :
          \A f \in vectors'[n].data :
              IF n \in DOMAIN vectors /\ \E e \in vectors[n].data :
                                            e.index = f.index
              THEN \A e \in vectors[n].data :
                       e.index = f.index =>
                           /\ Len(f.entry.linked) <= Len(e.entry.linked)
                           /\ Len(e.entry.linked) = 1 =>
                                  Len(f.entry.linked) = 1
                           /\ LengthStep(n, e, f)
              ELSE /\ InsertStep
                   /\ Len(f.entry.linked) =
                          IF ret'.op = "insert_entry" THEN 1
                          ELSE Len(ret'.args)]_vars

\* C20's case: the unlink_entry of the last member of a group of three has
\* left its two siblings a link record of length 2, beside an entry that
\* was and is linked to itself alone.
C20_Witness ==
    /\ Unlinked
    /\ Len(UnlinkedEntry.entry.linked) = 3
    /\ UnlinkedEntry.entry.linked[3] = SelfCoord
    /\ Len(Lookup(vectors, UnlinkedEntry.entry.linked[1])[1].entry.linked) = 2
    /\ Len(Lookup(vectors, UnlinkedEntry.entry.linked[2])[1].entry.linked) = 2
    /\ \E n \in DOMAIN pre :
           \E e \in pre[n].data :
               Len(e.entry.linked) = 1 /\ e \in vectors[n].data

\* C21: once remove_entries at a group has succeeded, get_entry at each of
\* the group's coordinates returns None and remove_entries, get_entries and
\* unlink_entry there return Err; a coordinate that resolves to nothing
\* comes to resolve again only by a successful insert.
C21_RemovedStayGone ==
    /\ []((ret.op = "remove_entries" /\ ret.status = "Ok") =>
            LET L == EntryAt(pre, ret.args[1], ret.args[2]).entry.linked
            IN \A k \in 1 .. Len(L) :
                   /\ get_entry(vectors, L[k][1], L[k][2]) = None
                   /\ remove_entries(vectors, L[k][1], L[k][2]).status = "Err"
                   /\ get_entries(vectors, L[k][1], L[k][2]).status = "Err"
                   /\ unlink_entry(vectors, L[k][1], L[k][2]).status = "Err")
    /\ [][\A c \in Names \X Indices :
              (Lookup(vectors, c) = None /\ Lookup(vectors', c) # None) =>
                  InsertStep]_vars

\* C21's case: a group of two or more with members in both vectors is
\* removed from a MultiVector that keeps other entries.
C21_Witness ==
    /\ ret.op = "remove_entries"
    /\ ret.status = "Ok"
    /\ {ret.value[k][1].entry.vector : k \in 1 .. Len(ret.value)} = Names
    /\ len(vectors) > 0

\* C22: in every state reached from an empty MultiVector through the
\* public methods no link record holds a dangling coordinate: unlink_entry
\* does not panic, and no slot of get_entries or remove_entries is None.
C22_NoDanglingFromNew ==
    /\ ~HasDangling(vectors)
    /\ ret.status # "Panic"
    /\ (ret.op \in {"get_entries", "remove_entries"} /\ ret.status = "Ok") =>
           \A k \in 1 .. Len(ret.value) : ret.value[k] # None

\* C22's case: remove_entries returns the two members left of a group that
\* an unlink_entry took a member from.
C22_Witness ==
    /\ ret.op = "remove_entries"
    /\ ret.status = "Ok"
    /\ Len(ret.value) = 2
    /\ \A g \in groups : ~Member(g, ret.args[1], ret.args[2])

\* The distinct link records of the entries of vs.
Records(vs) ==
    UNION {{e.entry.linked : e \in vs[n].data} : n \in DOMAIN vs}

RECURSIVE SumOfLen(_)
\* The sum of the lengths of the records of a set.
SumOfLen(records) ==
    IF records = {} THEN 0
    ELSE LET r == CHOOSE x \in records : TRUE
         IN Len(r) + SumOfLen(records \ {r})

\* The coordinates the entries of vs are stored at.
StoredCoordinates(vs) ==
    UNION {{<<n, e.index>> : e \in vs[n].data} : n \in DOMAIN vs}

RECURSIVE Drains(_, _)
\* Whether vs empties within k calls whatever stored entry each
\* remove_entries is called at, every call returning Ok with len() lower
\* than before, and every vector can be destroyed once len() is 0.
Drains(vs, k) ==
    IF len(vs) = 0
    THEN \A n \in DOMAIN vs : destroy_vector(vs, n).status = "Ok"
    ELSE /\ k > 0
         /\ \A r \in {remove_entries(vs, c[1], c[2]) :
                            c \in StoredCoordinates(vs)} :
                /\ r.status = "Ok"
                /\ len(r.vectors) < len(vs)
                /\ Drains(r.vectors, k - 1)

\* C23: from every reachable state, remove_entries at the coordinate of any
\* stored entry returns Ok and lowers len(); len() such calls at most, at
\* whatever entries, bring len() to 0, and then destroy_vector succeeds for
\* every vector.  The maps of the states between two calls are the maps of
\* all reachable states: Return keeps the map a call has left.
C23_Drain == Ready => Drains(vectors, len(vectors))

\* C23's case: between two calls the MultiVector holds four entries in
\* three groups or more, in two vectors, one group having been split by an
\* unlink_entry: draining it takes three calls at least.
C23_Witness ==
    /\ Ready
    /\ len(vectors) = 4
    /\ Cardinality(Records(vectors)) >= 3
    /\ \A n \in Names : n \in DOMAIN vectors /\ vectors[n].data # {}
    /\ Cardinality(groups) < Cardinality(Records(vectors))

\* C24: a successful insert of one item or more followed at once by
\* remove_entries at any offset of any inserted item gives back the state
\* before the insert: vectors, entries and link records.
C24_InsertRemoveRoundTrip ==
    (IsInsert /\ ret.status = "Ok" /\ Len(InsertArgs) > 0) =>
        \A k \in 1 .. Len(InsertArgs) :
            \A i \in InsertArgs[k][3] ..
                        InsertArgs[k][3] + InsertArgs[k][4] - 1 :
                /\ remove_entries(vectors, InsertArgs[k][1], i).status = "Ok"
                /\ remove_entries(vectors, InsertArgs[k][1], i).vectors = pre

\* C24's case: two items or more, one of size 2 or more, are inserted
\* into a MultiVector that holds entries.
C24_Witness ==
    /\ ret.op = "insert_entries"
    /\ ret.status = "Ok"
    /\ Len(ret.args) >= 2
    /\ \E k \in 1 .. Len(ret.args) : ret.args[k][4] >= 2
    /\ len(pre) > 0

\* C25: when destroy_vector(name) returns Ok(c), create_vector(name, c)
\* called at once returns Ok and gives back the state before the destroy:
\* an empty vector `name` of the same max_size beside the other vectors,
\* unchanged.
C25_DestroyCreateRoundTrip ==
    (ret.op = "destroy_vector" /\ ret.status = "Ok") =>
        /\ create_vector(vectors, ret.args[1], ret.value).status = "Ok"
        /\ create_vector(vectors, ret.args[1], ret.value).vectors = pre
        /\ pre[ret.args[1]] = BumpyVectorNew(ret.value)

\* C25's case: a vector is destroyed beside a vector of another max_size
\* that holds entries.
C25_Witness ==
    /\ ret.op = "destroy_vector"
    /\ ret.status = "Ok"
    /\ \E n \in DOMAIN vectors :
           /\ vectors[n].max_size # ret.value
           /\ vectors[n].data # {}

\* C26: in every reachable state each stored entry's link record holds the
\* entry's own coordinate once and no coordinate twice; two different link
\* records share no coordinate, so that the records split the stored
\* entries into groups, and len() is the sum of the lengths of the distinct
\* records.
C26_RecordsPartition ==
    /\ \A n \in DOMAIN vectors :
           \A e \in vectors[n].data :
               /\ Cardinality({k \in 1 .. Len(e.entry.linked) :
                                  e.entry.linked[k] = <<n, e.index>>}) = 1
               /\ \A j, k \in 1 .. Len(e.entry.linked) :
                      j # k => e.entry.linked[j] # e.entry.linked[k]
    /\ \A r, q \in Records(vectors) :
           r # q => \A j \in 1 .. Len(r), k \in 1 .. Len(q) : r[j] # q[k]
    /\ len(vectors) = SumOfLen(Records(vectors))

\* C26's case: an unlink_entry has split a group of three beside another
\* group: four entries in three groups or more.
C26_Witness ==
    /\ Unlinked
    /\ Len(UnlinkedEntry.entry.linked) = 3
    /\ Cardinality(Records(vectors)) >= 3
    /\ len(vectors) = 4

\* C27: unlink_entry is idempotent: called again at the entry it has just
\* unlinked, through any offset of the entry, it returns Ok and leaves the
\* state as it is; called at an entry linked to itself alone it returns Ok
\* and changes nothing.
C27_UnlinkIdempotent ==
    /\ Unlinked =>
           \A i \in UnlinkedEntry.index ..
                       UnlinkedEntry.index + UnlinkedEntry.size - 1 :
               /\ unlink_entry(vectors, ret.args[1], i).status = "Ok"
               /\ unlink_entry(vectors, ret.args[1], i).vectors = vectors
    /\ (/\ ret.op = "unlink_entry"
        /\ Lookup(pre, ret.args) # None
        /\ Len(UnlinkedEntry.entry.linked) = 1) =>
           /\ ret.status = "Ok"
           /\ vectors = pre

\* C27's case: unlink_entry is called at an entry that an earlier
\* unlink_entry took out of its group, whose other members are still
\* stored.
C27_Witness ==
    /\ Unlinked
    /\ Len(UnlinkedEntry.entry.linked) = 1
    /\ \A g \in groups : ~Member(g, ret.args[1], ret.args[2])
    /\ \E n \in DOMAIN vectors :
           \E e \in vectors[n].data : Len(e.entry.linked) >= 2

\* C28: remove_entries returns Err exactly when get_entries, called in the
\* state the call starts from, returns Err; when it returns Ok its slots
\* are, one by one and in the same order, the entries that get_entries
\* returns there.
C28_RemoveAgreesWithGet ==
    (ret.op = "remove_entries") =>
        /\ (ret.status = "Err")
              <=> (get_entries(pre, ret.args[1], ret.args[2]).status = "Err")
        /\ ret.status = "Ok" =>
              ret.value = get_entries(pre, ret.args[1], ret.args[2]).value

\* C28's case: a group of three is removed through its last member.
C28_Witness ==
    /\ ret.op = "remove_entries"
    /\ ret.status = "Ok"
    /\ Len(ret.value) = 3
    /\ ret.value[3] = Lookup(pre, ret.args)

====
